---------------------------- MODULE Spec2Model ----------------------------
(***************************************************************************)
(* Model of services/referral_verification.py.                             *)
(*                                                                         *)
(* verify_referral(user_data) builds a prompt with an f-string, sends one  *)
(* chat-completion request through the module-level client, parses the     *)
(* answer as JSON, stamps it with the time and the model name and returns  *)
(* it; any Exception raised on the way is re-raised as                     *)
(* Exception("Failed to verify referral: " + str(e)).                      *)
(*                                                                         *)
(* Every invocation is a thread t with its own frame of locals; Step(t)    *)
(* executes its next step.  The caller's records, the remote service's     *)
(* answers and the wall clock are the environment.                         *)
(***************************************************************************)
EXTENDS Integers, Sequences, FiniteSets, TLC

(***************************************************************************)
(* Bounds of the model.                                                    *)
(***************************************************************************)
MaxClock == 2
MaxCalls == 1

Threads == {1, 2}

(***************************************************************************)
(* Python values, tagged with their type.  A dict holds a function from    *)
(* its keys; PySet stands for a Python set object (a value json.dumps      *)
(* cannot serialise).  Floats are kept in tenths (9 is 0.9).               *)
(***************************************************************************)
PyDict(items) == [pytype |-> "dict", v |-> items]
PyList(elems) == [pytype |-> "list", v |-> elems]
PyStr(s) == [pytype |-> "str", v |-> s]
PyInt(n) == [pytype |-> "int", v |-> n]
PyFloat(tenths) == [pytype |-> "float", v |-> tenths]
PyBool(b) == [pytype |-> "bool", v |-> b]
PySet == [pytype |-> "set", v |-> 0]
None == [pytype |-> "NoneType", v |-> 0]
EmptyDict == PyDict(<<>>)

Ok(v) == [ok |-> TRUE, val |-> v, type |-> "", msg |-> ""]
Raise(type, msg) == [ok |-> FALSE, val |-> None, type |-> type, msg |-> msg]

\* dict.get(key, default): the value under key, or default.
DictGet(d, key, default) ==
  IF key \in DOMAIN d.v THEN d.v[key] ELSE default

\* The receiver after dict.setdefault(key, {}) instead: a missing key is
\* inserted.
RecordAfterSetdefault(d, key) ==
  IF d.pytype # "dict" \/ key \in DOMAIN d.v THEN d
  ELSE PyDict(d.v @@ (key :> EmptyDict))

\* The receiver of dict.get after the call: dict.get only reads it.
RecordAfterGet(d, key) == d

\* user_data.get(key, {}); on a user_data without .get, AttributeError.
GetSub(user_data, key) ==
  IF user_data.pytype # "dict"
    THEN Raise("AttributeError", "'" \o user_data.pytype
               \o "' object has no attribute 'get'")
    ELSE Ok(DictGet(user_data, key, EmptyDict))

(***************************************************************************)
(* json.dumps(obj, indent=2) on the values the records hold: dicts of      *)
(* ints, strings and (unserialisable) sets.                                *)
(***************************************************************************)
DumpsLeaf(x) ==
  CASE x.pytype = "int" -> Ok(ToString(x.v))
    [] x.pytype = "str" -> Ok("\"" \o x.v \o "\"")
    [] x.pytype = "NoneType" -> Ok("null")
    [] OTHER -> Raise("TypeError", "Object of type " \o x.pytype
                      \o " is not JSON serializable")

RECURSIVE DumpsItems(_, _)
DumpsItems(items, keys) ==
  IF keys = {} THEN Ok("")
  ELSE LET k == CHOOSE x \in keys : TRUE
           leaf == DumpsLeaf(items[k])
           rest == DumpsItems(items, keys \ {k})
       IN IF ~leaf.ok THEN leaf
          ELSE IF ~rest.ok THEN rest
          ELSE Ok("\n  \"" \o k \o "\": " \o leaf.val
                  \o (IF keys \ {k} = {} THEN "\n" ELSE ",") \o rest.val)

JsonDumps(obj) ==
  IF obj.pytype # "dict" THEN DumpsLeaf(obj)
  ELSE IF DOMAIN obj.v = {} THEN Ok("{}")
  ELSE LET items == DumpsItems(obj.v, DOMAIN obj.v)
       IN IF items.ok THEN Ok("{" \o items.val \o "}") ELSE items

(***************************************************************************)
(* str.__format__(spec): the format-spec mini-language as CPython parses   *)
(* it for a str.  A spec is a sequence of characters.                      *)
(***************************************************************************)
AlignChars == {"<", ">", "=", "^"}
SignChars == {"+", "-", " "}
Digits == {"0", "1", "2", "3", "4", "5", "6", "7", "8", "9"}

\* The string of a sequence of characters.
RECURSIVE JoinChars(_)
JoinChars(cs) ==
  IF cs = <<>> THEN ""
  ELSE IF Len(cs) = 1 THEN cs[1]
  ELSE LET half == Len(cs) \div 2
       IN JoinChars(SubSeq(cs, 1, half)) \o JoinChars(SubSeq(cs, half + 1, Len(cs)))

RECURSIVE SkipDigits(_, _)
SkipDigits(spec, pos) ==
  IF pos <= Len(spec) /\ spec[pos] \in Digits
    THEN SkipDigits(spec, pos + 1) ELSE pos

\* Position after the optional [[fill]align] prefix.
AfterAlign(spec) ==
  IF Len(spec) >= 2 /\ spec[2] \in AlignChars THEN 3
  ELSE IF Len(spec) >= 1 /\ spec[1] \in AlignChars THEN 2
  ELSE 1

SkipOne(spec, pos, cs) ==
  IF pos <= Len(spec) /\ spec[pos] \in cs THEN pos + 1 ELSE pos

\* The parse of a spec: what is left for the presentation type, and the
\* flags a str rejects.
ParseFormatSpec(spec) ==
  LET p1 == AfterAlign(spec)
      p2 == SkipOne(spec, p1, SignChars)
      p3 == SkipOne(spec, p2, {"z"})
      p4 == SkipOne(spec, p3, {"#"})
      p5 == SkipDigits(spec, p4)
      p6 == SkipOne(spec, p5, {",", "_"})
      dot == p6 <= Len(spec) /\ spec[p6] = "."
      p7 == IF dot THEN SkipDigits(spec, p6 + 1) ELSE p6
  IN [sign |-> p2 # p1, alt |-> p4 # p3, grouped |-> p6 # p5,
      noprec |-> dot /\ p7 = p6 + 1,
      left |-> Len(spec) - p7 + 1,
      type |-> IF p7 = Len(spec) THEN spec[p7] ELSE "s",
      plain |-> p7 = 1]

FormatStr(value, spec) ==
  IF spec = <<>> THEN Ok(value)
  ELSE LET f == ParseFormatSpec(spec)
       IN IF f.noprec
            THEN Raise("ValueError", "Format specifier missing precision")
          ELSE IF f.left > 1
            THEN Raise("ValueError", "Invalid format specifier '"
                       \o JoinChars(spec) \o "' for object of type 'str'")
          ELSE IF f.type # "s"
            THEN Raise("ValueError", "Unknown format code '" \o f.type
                       \o "' for object of type 'str'")
          ELSE IF f.sign
            THEN Raise("ValueError",
                       "Sign not allowed in string format specifier")
          ELSE IF f.alt
            THEN Raise("ValueError",
                 "Alternate form (#) not allowed in string format specifier")
          ELSE IF f.grouped
            THEN Raise("ValueError", "Cannot specify ',' with 's'.")
          ELSE Ok(value)   \* width and precision: not used by Fields

(***************************************************************************)
(* The replacement fields of the prompt f-string, in source order.  The    *)
(* fourth one is the brace that opens the JSON response template: its      *)
(* expression is the string literal "verified" and everything after the    *)
(* first colon, up to the closing brace, is its format spec.               *)
(***************************************************************************)
NoSpec == <<>>

TemplateSpec ==
    << " ", "b", "o", "o", "l", "e", "a", "n", ",", "\n", " ", " ",
       " ", " ", " ", " ", " ", " ", " ", " ", " ", " ", "\"", "c",
       "o", "n", "f", "i", "d", "e", "n", "c", "e", "\"", ":", " ",
       "f", "l", "o", "a", "t", " ", "b", "e", "t", "w", "e", "e",
       "n", " ", "0", " ", "a", "n", "d", " ", "1", ",", "\n", " ",
       " ", " ", " ", " ", " ", " ", " ", " ", " ", " ", " ", "\"",
       "r", "e", "a", "s", "o", "n", "i", "n", "g", "\"", ":", " ",
       "\"", "d", "e", "t", "a", "i", "l", "e", "d", " ", "e", "x",
       "p", "l", "a", "n", "a", "t", "i", "o", "n", "\"", "\n", " ",
       " ", " ", " ", " ", " ", " ", " " >>

Fields == << [kind |-> "dumps", key |-> "activity", spec |-> NoSpec],
             [kind |-> "dumps", key |-> "timing", spec |-> NoSpec],
             [kind |-> "dumps", key |-> "interactions", spec |-> NoSpec],
             [kind |-> "literal", key |-> "verified", spec |-> TemplateSpec] >>

\* The value of field i's expression for the record user_data.
FieldExpr(user_data, i) ==
  IF Fields[i].kind = "literal" THEN Ok(Fields[i].key)
  ELSE LET sub == GetSub(user_data, Fields[i].key)
       IN IF sub.ok THEN JsonDumps(sub.val) ELSE sub

\* Field i evaluated and formatted: a piece of the prompt, or an exception.
EvalField(user_data, i) ==
  LET e == FieldExpr(user_data, i)
  IN IF e.ok THEN FormatStr(e.val, Fields[i].spec) ELSE e

\* The whole f-string from field i on: the pieces it yields, or the first
\* exception a field raises (later fields are then not evaluated).
RECURSIVE BuildPrompt(_, _, _)
BuildPrompt(user_data, i, pieces) ==
  IF i > Len(Fields) THEN Ok(pieces)
  ELSE LET piece == EvalField(user_data, i)
       IN IF piece.ok THEN BuildPrompt(user_data, i + 1, Append(pieces, piece.val))
          ELSE piece

(***************************************************************************)
(* json.loads on a response body.  A body is the text as a sequence of     *)
(* lexical tokens; a text that is no JSON at all is one "bad" token.       *)
(***************************************************************************)
P(s) == [t |-> "punct", s |-> s, n |-> 0]
S(s) == [t |-> "str", s |-> s, n |-> 0]
N(tenths) == [t |-> "num", s |-> "", n |-> tenths]
L(s) == [t |-> "lit", s |-> s, n |-> 0]
Bad(s) == [t |-> "bad", s |-> s, n |-> 0]

DecodeError(what) == Raise("JSONDecodeError", what)

IsScalarTok(tok) == tok.t \in {"str", "num", "lit"}

ScalarOf(tok) ==
  CASE tok.t = "str" -> PyStr(tok.s)
    [] tok.t = "num" -> PyFloat(tok.n)
    [] tok.t = "lit" /\ tok.s = "true" -> PyBool(TRUE)
    [] tok.t = "lit" /\ tok.s = "false" -> PyBool(FALSE)
    [] OTHER -> None

IsPunct(body, i, s) == i <= Len(body) /\ body[i] = P(s)

\* Members of an object from token i on; a repeated key keeps the last value.
RECURSIVE LoadMembers(_, _, _)
LoadMembers(body, i, items) ==
  IF ~(i <= Len(body) /\ body[i].t = "str")
    THEN DecodeError("Expecting property name enclosed in double quotes")
  ELSE IF ~IsPunct(body, i + 1, ":")
    THEN DecodeError("Expecting ':' delimiter")
  ELSE IF ~(i + 2 <= Len(body) /\ IsScalarTok(body[i + 2]))
    THEN DecodeError("Expecting value")
  ELSE LET items2 == (body[i].s :> ScalarOf(body[i + 2])) @@ items
       IN IF IsPunct(body, i + 3, ",") THEN LoadMembers(body, i + 4, items2)
          ELSE IF ~IsPunct(body, i + 3, "}")
            THEN DecodeError("Expecting ',' delimiter")
          ELSE IF i + 3 < Len(body) THEN DecodeError("Extra data")
          ELSE Ok(PyDict(items2))

RECURSIVE LoadElems(_, _, _)
LoadElems(body, i, elems) ==
  IF ~(i <= Len(body) /\ IsScalarTok(body[i]))
    THEN DecodeError("Expecting value")
  ELSE LET elems2 == Append(elems, ScalarOf(body[i]))
       IN IF IsPunct(body, i + 1, ",") THEN LoadElems(body, i + 2, elems2)
          ELSE IF ~IsPunct(body, i + 1, "]")
            THEN DecodeError("Expecting ',' delimiter")
          ELSE IF i + 1 < Len(body) THEN DecodeError("Extra data")
          ELSE Ok(PyList(elems2))

JsonLoads(content) ==
  IF content.pytype = "NoneType"
    THEN Raise("TypeError",
           "the JSON object must be str, bytes or bytearray, not NoneType")
  ELSE LET body == content.v
       IN IF body = <<>> \/ body[1].t = "bad" THEN DecodeError("Expecting value")
          ELSE IF IsScalarTok(body[1])
            THEN IF Len(body) > 1 THEN DecodeError("Extra data")
                 ELSE Ok(ScalarOf(body[1]))
          ELSE IF body[1] = P("{")
            THEN IF IsPunct(body, 2, "}")
                   THEN IF Len(body) > 2 THEN DecodeError("Extra data")
                        ELSE Ok(EmptyDict)
                   ELSE LoadMembers(body, 2, <<>>)
          ELSE IF body[1] = P("[")
            THEN IF IsPunct(body, 2, "]")
                   THEN IF Len(body) > 2 THEN DecodeError("Extra data")
                        ELSE Ok(PyList(<<>>))
                   ELSE LoadElems(body, 2, <<>>)
          ELSE DecodeError("Expecting value")

\* response.choices[0].message.content
FirstContent(response) ==
  IF response.choices = <<>>
    THEN Raise("IndexError", "list index out of range")
    ELSE Ok(response.choices[1])

\* json.loads(response.choices[0].message.content)
ParseResponse(response) ==
  LET c == FirstContent(response)
  IN IF c.ok THEN JsonLoads(c.val) ELSE c

\* obj[key] = value
SetItem(obj, key, value) ==
  CASE obj.pytype = "dict" -> Ok(PyDict((key :> value) @@ obj.v))
    [] obj.pytype = "list" ->
         Raise("TypeError", "list indices must be integers or slices, not str")
    [] OTHER -> Raise("TypeError", "'" \o obj.pytype
                      \o "' object does not support item assignment")

\* str(int(time.time())) for a clock reading in tenths of a second.
TimestampOf(clock) == PyStr(ToString(clock \div 10))

ModelVersion == PyStr("gpt-4o")
ErrorPrefix == "Failed to verify referral: "

Returned(value) == [kind |-> "return", value |-> value, type |-> "", msg |-> ""]
Raised(type, msg) == [kind |-> "raise", value |-> None, type |-> type, msg |-> msg]
NoOutcome == [kind |-> "none", value |-> None, type |-> "", msg |-> ""]

\* except Exception as e: raise Exception(f"Failed to verify referral: {str(e)}")
Rewrap(exc) == Raised("Exception", ErrorPrefix \o exc.msg)

(***************************************************************************)
(* Inputs: the caller's Referral Record and what the remote service would  *)
(* answer to this invocation's request.                                    *)
(***************************************************************************)
Keys == {"activity", "timing", "interactions"}

SubVals == { EmptyDict,
             PyDict("clicks" :> PyInt(3)),
             PyDict("ids" :> PySet) }

Records ==
  {PyDict(f) : f \in UNION {[K -> SubVals] : K \in SUBSET Keys}} \cup {None}

Verdict == << P("{"), S("verified"), P(":"), L("true"), P(","),
              S("confidence"), P(":"), N(9), P(","),
              S("reasoning"), P(":"), S("consistent timing"), P("}") >>

VerdictWithMeta == << P("{"), S("verified"), P(":"), L("false"), P(","),
                      S("confidence"), P(":"), N(2), P(","),
                      S("reasoning"), P(":"), S("burst"), P(","),
                      S("timestamp"), P(":"), S("1999"), P(","),
                      S("model_version"), P(":"), S("gpt-3"), P("}") >>

Bodies == { Verdict, VerdictWithMeta,
            << P("{"), S("verified"), P(":"), L("true"), P("}") >>,
            << P("{"), S("verified"), P(":"), S("yes"), P(","),
               S("confidence"), P(":"), N(15), P(","),
               S("reasoning"), P(":"), L("null"), P("}") >>,
            << P("["), L("true"), P("]") >>,
            << L("null") >>,
            << Bad("I cannot help with that.") >> }

Reply(choices) ==
  [kind |-> "response", choices |-> choices, type |-> "", msg |-> ""]
RemoteError(type, msg) ==
  [kind |-> "error", choices |-> <<>>, type |-> type, msg |-> msg]
NoResponse == [kind |-> "none", choices |-> <<>>, type |-> "", msg |-> ""]

Stubs == { RemoteError("APIConnectionError", "Connection error."),
           Reply(<<>>), Reply(<<None>>) }
         \cup {Reply(<<PyStr(b)>>) : b \in Bodies}

ConcRecords == { EmptyDict, None,
                 PyDict([k \in Keys |-> PyDict("clicks" :> PyInt(3))]),
                 PyDict("timing" :> PyDict("ids" :> PySet)) }
ConcStubs == { RemoteError("APIConnectionError", "Connection error."),
               Reply(<<PyStr(Verdict)>>) }

(***************************************************************************)
(* State.                                                                  *)
(***************************************************************************)
VARIABLES
  openai,     \* the module-level API client, built when the module loads
  now,        \* the wall clock, in tenths of a second
  requests,   \* the requests sent to the remote service so far, in order
  pc,         \* where each invocation stands
  fld,        \* the replacement field of the prompt being evaluated
  user_data,  \* the caller's record object, as it is now
  given,      \* the caller's record as it was when passed
  stub,       \* what the remote service answers to this invocation
  locals,     \* the frames: prompt pieces, response, result, caught e
  outcome,    \* how the invocation ended
  trace,      \* the steps the invocation executed, in order
  clockRead,  \* the clock value time.time() returned, -1 if never called
  calls,      \* invocations made so far by each thread
  concurrent  \* whether a step of the invocation ran while another was running

vars == << openai, now, requests, pc, fld, user_data, given, stub, locals,
           outcome, trace, clockRead, calls, concurrent >>

NoExc == Raise("", "")
EmptyFrame == [pieces |-> <<>>, response |-> NoResponse, result |-> None,
               exc |-> NoExc]

Running == {"prompt", "request", "await", "parse", "stamp_ts", "stamp_mv",
            "return", "except"}
Ended == {"returned", "raised"}

\* Locals kept in one module-level place instead of the call's frame.
SharedFrame(t) == 1

\* The frame that holds invocation t's locals: each call has its own.
Frame(t) == t

Init ==
  /\ openai = [api_key |-> "OPENAI_API_KEY"]
  /\ now = 0
  /\ requests = <<>>
  /\ pc = [t \in Threads |-> "idle"]
  /\ fld = [t \in Threads |-> 0]
  /\ user_data = [t \in Threads |-> None]
  /\ given = [t \in Threads |-> None]
  /\ stub = [t \in Threads |-> NoResponse]
  /\ locals = [t \in Threads |-> EmptyFrame]
  /\ outcome = [t \in Threads |-> NoOutcome]
  /\ trace = [t \in Threads |-> <<>>]
  /\ clockRead = [t \in Threads |-> -1]
  /\ calls = [t \in Threads |-> 0]
  /\ concurrent = [t \in Threads |-> FALSE]

\* A caller calls verify_referral(rec); the remote service is set to answer
\* this invocation's request with reply.
Invoke(t, rec, reply) ==
  /\ pc[t] \in {"idle"} \cup Ended
  /\ calls[t] < MaxCalls
  /\ calls' = [calls EXCEPT ![t] = @ + 1]
  /\ pc' = [pc EXCEPT ![t] = "prompt"]
  /\ fld' = [fld EXCEPT ![t] = 1]
  /\ user_data' = [user_data EXCEPT ![t] = rec]
  /\ given' = [given EXCEPT ![t] = rec]
  /\ stub' = [stub EXCEPT ![t] = reply]
  /\ locals' = [locals EXCEPT ![Frame(t)] = EmptyFrame]
  /\ outcome' = [outcome EXCEPT ![t] = NoOutcome]
  /\ trace' = [trace EXCEPT ![t] = <<>>]
  /\ clockRead' = [clockRead EXCEPT ![t] = -1]
  /\ concurrent' = [concurrent EXCEPT ![t] = FALSE]
  /\ UNCHANGED << openai, now, requests >>

\* The wall clock advances by half a second.
Tick ==
  /\ now + 5 <= MaxClock * 10
  /\ now' = now + 5
  /\ UNCHANGED << openai, requests, pc, fld, user_data, given, stub, locals,
                  outcome, trace, clockRead, calls, concurrent >>

(***************************************************************************)
(* The steps of verify_referral.  Each gives the effect of one step of     *)
(* invocation t: its next position, its frame, and what it did to the      *)
(* record, the network, the clock reading and the outcome.                 *)
(***************************************************************************)
Keep(t) ==
  [pc |-> pc[t], fld |-> fld[t], frame |-> locals[Frame(t)],
   record |-> user_data[t], sent |-> <<>>, read |-> clockRead[t],
   outcome |-> outcome[t]]

\* An exception raised inside the try block: control goes to the handler.
Throw(t, exc) ==
  [Keep(t) EXCEPT !.pc = "except", !.frame.exc = exc]

\* Lines 25-42: one replacement field of the prompt f-string.
PromptStep(t) ==
  LET i == fld[t]
      piece == EvalField(user_data[t], i)
      record == IF Fields[i].kind = "dumps"
                  THEN RecordAfterGet(user_data[t], Fields[i].key)
                  ELSE user_data[t]
  IN IF ~piece.ok THEN [Throw(t, piece) EXCEPT !.record = record]
     ELSE [Keep(t) EXCEPT
             !.frame.pieces = Append(@, piece.val),
             !.record = record,
             !.fld = IF i < Len(Fields) THEN i + 1 ELSE i,
             !.pc = IF i < Len(Fields) THEN "prompt" ELSE "request"]

\* Lines 44-54: openai.chat.completions.create(...) sends the request.
RequestStep(t) ==
  [Keep(t) EXCEPT
     !.pc = "await",
     !.sent = << [thread |-> t, call |-> calls[t], model |-> "gpt-4o",
                  prompt |-> locals[Frame(t)].pieces,
                  response_format |-> "json_object",
                  api_key |-> openai.api_key, at |-> now] >>]

\* Lines 44-54: the blocked call completes: a response, or an exception.
AwaitStep(t) ==
  IF stub[t].kind = "error"
    THEN Throw(t, Raise(stub[t].type, stub[t].msg))
    ELSE [Keep(t) EXCEPT !.pc = "parse", !.frame.response = stub[t]]

\* Line 56: result = json.loads(response.choices[0].message.content)
ParseStep(t) ==
  LET r == ParseResponse(locals[Frame(t)].response)
  IN IF ~r.ok THEN Throw(t, r)
     ELSE [Keep(t) EXCEPT !.pc = "stamp_ts", !.frame.result = r.val]

\* Line 59: result["timestamp"] = str(int(time.time()))
StampTimeStep(t) ==
  LET r == SetItem(locals[Frame(t)].result, "timestamp", TimestampOf(now))
  IN IF ~r.ok THEN [Throw(t, r) EXCEPT !.read = now]
     ELSE [Keep(t) EXCEPT !.pc = "stamp_mv", !.frame.result = r.val,
                          !.read = now]

\* Line 60: result["model_version"] = "gpt-4o"
StampModelStep(t) ==
  LET r == SetItem(locals[Frame(t)].result, "model_version", ModelVersion)
  IN IF ~r.ok THEN Throw(t, r)
     ELSE [Keep(t) EXCEPT !.pc = "return", !.frame.result = r.val]

\* Line 62: return result
ReturnStep(t) ==
  [Keep(t) EXCEPT !.pc = "returned",
                  !.outcome = Returned(locals[Frame(t)].result)]

\* A handler that swallows the exception and returns what there is.
PartialResultHandler(t) ==
  [Keep(t) EXCEPT !.pc = "returned",
                  !.outcome = Returned(locals[Frame(t)].result)]

\* Lines 64-65: the handler re-raises the caught exception, wrapped.
ExceptStep(t) ==
  [Keep(t) EXCEPT !.pc = "raised",
                  !.outcome = Rewrap(locals[Frame(t)].exc)]

StepEffect(t) ==
  CASE pc[t] = "prompt" -> PromptStep(t)
    [] pc[t] = "request" -> RequestStep(t)
    [] pc[t] = "await" -> AwaitStep(t)
    [] pc[t] = "parse" -> ParseStep(t)
    [] pc[t] = "stamp_ts" -> StampTimeStep(t)
    [] pc[t] = "stamp_mv" -> StampModelStep(t)
    [] pc[t] = "return" -> ReturnStep(t)
    [] pc[t] = "except" -> ExceptStep(t)

\* verify_referral as a function of its input, the remote answer and the
\* clock reading: the steps above run one after the other by one caller.
VerifyReferral(rec, reply, clock) ==
  LET prompt == BuildPrompt(rec, 1, <<>>)
      parsed == ParseResponse(reply)
      stamped == SetItem(parsed.val, "timestamp", TimestampOf(clock))
      result == SetItem(stamped.val, "model_version", ModelVersion)
  IN IF ~prompt.ok THEN Rewrap(prompt)
     ELSE IF reply.kind = "error" THEN Rewrap(reply)
     ELSE IF ~parsed.ok THEN Rewrap(parsed)
     ELSE IF ~stamped.ok THEN Rewrap(stamped)
     ELSE IF ~result.ok THEN Rewrap(result)
     ELSE Returned(result.val)

\* Invocation t executes its next step.
Step(t) ==
  /\ pc[t] \in Running
  /\ LET eff == StepEffect(t)
     IN /\ pc' = [pc EXCEPT ![t] = eff.pc]
        /\ fld' = [fld EXCEPT ![t] = eff.fld]
        /\ locals' = [locals EXCEPT ![Frame(t)] = eff.frame]
        /\ user_data' = [user_data EXCEPT ![t] = eff.record]
        /\ requests' = requests \o eff.sent
        /\ clockRead' = [clockRead EXCEPT ![t] = eff.read]
        /\ outcome' = [outcome EXCEPT ![t] = eff.outcome]
        /\ trace' = [trace EXCEPT ![t] = Append(@, pc[t])]
  /\ concurrent' = [concurrent EXCEPT ![t] =
                      @ \/ \E u \in Threads \ {t} : pc[u] \in Running]
  /\ UNCHANGED << openai, now, given, stub, calls >>

\* One caller, one invocation at a time.
Next ==
  \/ \E rec \in Records, reply \in Stubs : Invoke(1, rec, reply)
  \/ Step(1)
  \/ Tick

Spec == Init /\ [][Next]_vars

\* Two callers whose invocations interleave step by step.
ConcNext ==
  \/ \E t \in Threads, rec \in ConcRecords, reply \in ConcStubs :
       Invoke(t, rec, reply)
  \/ \E t \in Threads : Step(t)
  \/ Tick

ConcSpec == Init /\ [][ConcNext]_vars

(***************************************************************************)
(* Properties.                                                             *)
(***************************************************************************)
Done(t) == pc[t] \in Ended

Range(s) == {s[i] : i \in DOMAIN s}

\* The requests the current invocation of t has sent.
RequestsOf(t) ==
  SelectSeq(requests, LAMBDA r : r.thread = t /\ r.call = calls[t])

OmitsAll(rec) == rec.pytype = "dict" /\ DOMAIN rec.v \cap Keys = {}

\* The remote answer is the text of a JSON object with the three fields.
IsVerdict(reply) ==
  /\ reply.kind = "response"
  /\ ParseResponse(reply).ok
  /\ ParseResponse(reply).val.pytype = "dict"
  /\ {"verified", "confidence", "reasoning"}
       \subseteq DOMAIN ParseResponse(reply).val.v

\* Every invocation raises while the prompt is built: the request, the
\* parse, the stamps and the return are never reached.
NoRequestIsEverSent ==
  /\ requests = <<>>
  /\ \A t \in Threads :
       pc[t] \in {"idle", "prompt", "except", "raised"}

\* C1: an invocation whose record omits activity, timing and interactions
\* does not end in an error before its request has been sent.
C1_OmittedFieldsReachRequest ==
  \A t \in Threads :
    (OmitsAll(given[t]) /\ pc[t] \in {"except", "raised"})
      => RequestsOf(t) # <<>>

\* The record's sub-mappings can all be rendered as JSON text.
Serialisable(rec) ==
  \A i \in DOMAIN Fields :
    Fields[i].kind = "dumps" => FieldExpr(rec, i).ok

\* C2: when the remote answer is a JSON object O with verified, confidence
\* and reasoning, an invocation on a record whose sub-mappings can be
\* rendered returns O plus exactly the keys timestamp and model_version,
\* every key of O with O's value.
C2_ReturnsVerdictPlusMetadata ==
  \A t \in Threads :
    (Done(t) /\ Serialisable(given[t]) /\ IsVerdict(stub[t])) =>
      LET O == ParseResponse(stub[t]).val.v
      IN /\ outcome[t].kind = "return"
         /\ outcome[t].value.pytype = "dict"
         /\ DOMAIN outcome[t].value.v
              = DOMAIN O \cup {"timestamp", "model_version"}
         /\ \A k \in DOMAIN O : outcome[t].value.v[k] = O[k]

\* What the step that failed raised, from the invocation's own inputs.
CauseOf(t, step) ==
  CASE step = "prompt" -> EvalField(given[t], fld[t])
    [] step = "await" -> Raise(stub[t].type, stub[t].msg)
    [] step = "parse" -> ParseResponse(stub[t])
    [] step = "stamp_ts" -> SetItem(ParseResponse(stub[t]).val, "timestamp",
                                    TimestampOf(clockRead[t]))
    [] OTHER -> Ok(None)

\* C3: when a step fails, the invocation goes to the handler and ends by
\* raising Exception("Failed to verify referral: " + the cause's message);
\* no step runs between the failing one and the handler, no request is sent
\* after a failed prompt, and nothing is returned.
C3_FailureRaisesWrappedCause ==
  \A t \in Threads :
    /\ pc[t] \in {"except", "raised"} =>
         LET n == Len(trace[t])
             failing == IF pc[t] = "except" THEN trace[t][n]
                        ELSE trace[t][n - 1]
             cause == CauseOf(t, failing)
         IN /\ ~cause.ok
            /\ pc[t] = "except" => outcome[t] = NoOutcome
            /\ pc[t] = "raised" =>
                 /\ trace[t][n] = "except"
                 /\ outcome[t] = Raised("Exception", ErrorPrefix \o cause.msg)
            /\ failing = "prompt" => RequestsOf(t) = <<>>
    /\ "except" \in Range(trace[t]) => pc[t] = "raised"
    /\ outcome[t].kind = "return" => "except" \notin Range(trace[t])

C3_Witness ==
  /\ pc[1] = "raised"
  /\ given[1].pytype = "dict"
  /\ "timing" \in DOMAIN given[1].v
  /\ outcome[1].msg
       = ErrorPrefix \o "Object of type set is not JSON serializable"
  /\ fld[1] = 2

\* C5: an invocation sends at most one request, and a request carries the
\* complete prompt; an invocation on a record whose sub-mappings can be
\* rendered has sent exactly one request, and the remote service has
\* answered or failed, by the time it ends.
C5_OneRequestPerInvocation ==
  \A t \in Threads :
    /\ Len(RequestsOf(t)) <= 1
    /\ \A i \in DOMAIN RequestsOf(t) :
         Len(RequestsOf(t)[i].prompt) = Len(Fields)
    /\ (Done(t) /\ Serialisable(given[t])) =>
         /\ Len(RequestsOf(t)) = 1
         /\ "await" \in Range(trace[t])

\* C6: the caller's record is what it was when it was passed, at every
\* point of the invocation and after it: no sub-mapping is inserted, no key
\* is added or changed.
C6_RecordUnchanged ==
  \A t \in Threads : user_data[t] = given[t]

C6_Witness ==
  /\ pc[1] = "raised"
  /\ given[1] = EmptyDict
  /\ user_data[1] = EmptyDict
  /\ fld[1] = 4

\* C7: under every interleaving of two invocations, each one ends as it
\* would when run alone on its own record, remote answer and clock reading,
\* and the module-level client is never written.
C7_OutcomeAsRunAlone ==
  /\ openai = [api_key |-> "OPENAI_API_KEY"]
  /\ \A t \in Threads :
       Done(t) =>
         outcome[t] = VerifyReferral(given[t], stub[t], clockRead[t])

C7_Witness ==
  /\ Done(1) /\ Done(2)
  /\ concurrent[1] /\ concurrent[2]
  /\ outcome[1].msg # outcome[2].msg
  /\ fld[1] = 2 /\ fld[2] = 4

=============================================================================
